---- MODULE Spec2Model ----
(***************************************************************************)
(* Model of the chunked-extraction-and-synthesis pipeline of server.js:    *)
(* splitIntoChunks, extractMetricsFromChunks, extractJsonFromResponse,     *)
(* getProjectHealthAnalysis and the GET /api/project-health handler; and   *)
(* of the script runners executeConfluenceScript and executeJiraScript     *)
(* with their wrappers fetchConfluenceDocuments and fetchJiraIssues; and   *)
(* of the order in which the Express application tries its routes.         *)
(*                                                                         *)
(* Strings are sequences of one-character strings; offsets are 0-based as  *)
(* in JavaScript, so text.substring(a, b) is SubSeq(text, a + 1, b).       *)
(***************************************************************************)
EXTENDS Integers, Sequences, FiniteSets, TLC

VARIABLES
    text,       \* splitIntoChunks: the argument text
    chunkSize,  \* splitIntoChunks: the argument chunkSize
    i,          \* splitIntoChunks: the scan offset
    chunks,     \* splitIntoChunks: the local array chunks
    cpc,        \* splitIntoChunks: "idle", "loop" (in the while loop) or "done"
    returned,   \* splitIntoChunks: the returned array
    response,   \* extractJsonFromResponse: the argument response
    jpc,        \* extractJsonFromResponse: "idle", "call" or "done"
    outcome,    \* extractJsonFromResponse: how the call ended
    reqs,       \* GET /api/project-health: the state of each request in progress
    fetch,      \* fetchConfluenceDocuments, fetchJiraIssues: the state of one call
    http        \* the Express application: the state of one request on its way through the stack

chunkVars == <<text, chunkSize, i, chunks, cpc, returned>>

jsonVars == <<response, jpc, outcome>>

vars == <<text, chunkSize, i, chunks, cpc, returned, response, jpc, outcome, reqs, fetch, http>>

----------------------------------------------------------------------------
(* Bounds of the model *)

MaxTextLen == 6

MaxChunkSize == 4

MaxContentLen == 5

(* The chunk size the handler splits with: splitIntoChunks' default of 5000,
   scaled down to the size of the data files of the model *)
PipelineChunkSize == 2

(* chunks.splice(0, 5) *)
ChunkCap == 5

----------------------------------------------------------------------------
(* Strings *)

Terminators == {".", "!", "?"}

Whitespace == {" ", "\n", "\t", "\r"}

TextAlphabet == {"a", ".", " "}

RECURSIVE SeqsUpTo(_, _)
SeqsUpTo(S, n) ==
    IF n = 0 THEN {<<>>}
    ELSE LET shorter == SeqsUpTo(S, n - 1)
         IN  shorter \cup {Append(s, c) : s \in {t \in shorter : Len(t) = n - 1}, c \in S}

Min(a, b) == IF a <= b THEN a ELSE b

(* text.substring(a, b), 0 <= a <= b <= text.length *)
Substring(s, a, b) == SubSeq(s, a + 1, b)

(* str.search(/[.!?][\s\n]/g): the index of the first terminator that is
   immediately followed by whitespace, or -1 *)
SearchBoundary(str) ==
    LET hits == {p \in 0..(Len(str) - 2) :
                    str[p + 1] \in Terminators /\ str[p + 2] \in Whitespace}
    IN  IF hits = {} THEN -1
        ELSE CHOOSE p \in hits : \A q \in hits : p <= q

----------------------------------------------------------------------------
(* JSON text.  An oracle response is a sequence of lexical tokens: the fence
   marker, the label json, a whitespace character, the punctuation of JSON,
   a quoted key with its colon, the scalars 1 and null, a member "key":scalar,
   and a word of prose (which is no JSON token, as the unquoted a: 1 is not). *)

(* The triple-backtick marker, written with quotes: a TLA+ string holds no
   backtick *)
Fence == "'''"

JsonLabel == "json"

Prose == "x"

KeyA == "\"a\":"

KeyTokens == {KeyA}

ScalarTokens == {"1", "null"}

ScoreOk == "\"score\":92"

ScoreHigh == "\"score\":150"

HealthGreen == "\"projectHealth\":\"GREEN\""

HealthBlue == "\"projectHealth\":\"BLUE\""

MemberTokens == {ScoreOk, ScoreHigh, HealthGreen, HealthBlue}

JsonAlphabet == {Fence, JsonLabel, " ", "{", "}", ",", KeyA, "1", Prose}

(* The JavaScript values JSON.parse produces *)
Null == [t |-> "null"]

Num(n) == [t |-> "num", n |-> n]

Str(s) == [t |-> "str", s |-> s]

Obj(members) == [t |-> "obj", m |-> members]

(* The key and the value a key or member token denotes *)
KeyOf(tok) ==
    CASE tok = KeyA -> "a"
      [] tok \in {ScoreOk, ScoreHigh} -> "score"
      [] tok \in {HealthGreen, HealthBlue} -> "projectHealth"

ScalarOf(tok) ==
    CASE tok = "1" -> Num(1)
      [] tok = "null" -> Null
      [] tok = ScoreOk -> Num(92)
      [] tok = ScoreHigh -> Num(150)
      [] tok = HealthGreen -> Str("GREEN")
      [] tok = HealthBlue -> Str("BLUE")

(* Property assignment on an object under construction: members are kept in
   insertion order, a repeated key keeps its place and takes the new value *)
Put(members, key, val) ==
    IF \E n \in 1..Len(members) : members[n][1] = key
    THEN [n \in 1..Len(members) |->
            IF members[n][1] = key THEN <<key, val>> ELSE members[n]]
    ELSE Append(members, <<key, val>>)

(* The first position at or after p that holds no whitespace *)
RECURSIVE SkipWs(_, _)
SkipWs(toks, p) ==
    IF p <= Len(toks) /\ toks[p] \in Whitespace THEN SkipWs(toks, p + 1) ELSE p

ParseFail == [ok |-> FALSE, next |-> 0, v |-> Null]

RECURSIVE ParseValue(_, _)
RECURSIVE ParseMember(_, _, _)
RECURSIVE ParseAfterMember(_, _, _)

(* After a member: a closing brace, or a comma and one more member; a comma
   before the closing brace is taken as the end of the members *)
ParseAfterMemberLenient(toks, p, acc) ==
    LET q == SkipWs(toks, p)
    IN  IF q > Len(toks) THEN ParseFail
        ELSE IF toks[q] = "}" THEN [ok |-> TRUE, next |-> q + 1, v |-> Obj(acc)]
        ELSE IF toks[q] = ","
             THEN LET r == SkipWs(toks, q + 1)
                  IN  IF r <= Len(toks) /\ toks[r] = "}"
                      THEN [ok |-> TRUE, next |-> r + 1, v |-> Obj(acc)]
                      ELSE ParseMember(toks, r, acc)
        ELSE ParseFail

(* After a member: a closing brace, or a comma and one more member *)
ParseAfterMember(toks, p, acc) ==
    LET q == SkipWs(toks, p)
    IN  IF q > Len(toks) THEN ParseFail
        ELSE IF toks[q] = "}" THEN [ok |-> TRUE, next |-> q + 1, v |-> Obj(acc)]
        ELSE IF toks[q] = "," THEN ParseMember(toks, SkipWs(toks, q + 1), acc)
        ELSE ParseFail

(* A member at p: "key":scalar, or "key": and a value *)
ParseMember(toks, p, acc) ==
    IF p > Len(toks) THEN ParseFail
    ELSE IF toks[p] \in MemberTokens
         THEN ParseAfterMember(toks, p + 1, Put(acc, KeyOf(toks[p]), ScalarOf(toks[p])))
    ELSE IF toks[p] \in KeyTokens
         THEN LET val == ParseValue(toks, p + 1)
              IN  IF val.ok
                  THEN ParseAfterMember(toks, val.next, Put(acc, KeyOf(toks[p]), val.v))
                  ELSE ParseFail
    ELSE ParseFail

(* A value at or after p: a scalar or an object *)
ParseValue(toks, p) ==
    LET q == SkipWs(toks, p)
    IN  IF q > Len(toks) THEN ParseFail
        ELSE IF toks[q] \in ScalarTokens
             THEN [ok |-> TRUE, next |-> q + 1, v |-> ScalarOf(toks[q])]
        ELSE IF toks[q] = "{"
             THEN LET r == SkipWs(toks, q + 1)
                  IN  IF r <= Len(toks) /\ toks[r] = "}"
                      THEN [ok |-> TRUE, next |-> r + 1, v |-> Obj(<<>>)]
                      ELSE ParseMember(toks, r, <<>>)
        ELSE ParseFail

(* JSON.parse(str): the value, or ok = FALSE when it throws a SyntaxError *)
JSONParse(str) ==
    LET r == ParseValue(str, 1)
    IN  IF r.ok /\ SkipWs(str, r.next) > Len(str)
        THEN [ok |-> TRUE, v |-> r.v]
        ELSE [ok |-> FALSE, v |-> Null]

(* str.trim() *)
RECURSIVE TrimEnd(_)
TrimEnd(str) ==
    IF str # <<>> /\ str[Len(str)] \in Whitespace
    THEN TrimEnd(SubSeq(str, 1, Len(str) - 1))
    ELSE str

Trim(str) == TrimEnd(SubSeq(str, SkipWs(str, 1), Len(str)))

Positions(str, tok) == {p \in 1..Len(str) : str[p] = tok}

MinOf(S) == CHOOSE p \in S : \A q \in S : p <= q

MaxOf(S) == CHOOSE p \in S : \A q \in S : p >= q

NoMatch == [found |-> FALSE, all |-> <<>>, group1 |-> <<>>]

(* The end of a group that is greedy instead of lazy: the greatest e >= s
   from which \s*''' matches *)
GreedyGroupEnd(str, s) ==
    MaxOf({e \in s..Len(str) :
             LET f == SkipWs(str, e) IN f <= Len(str) /\ str[f] = Fence})

(* The end (exclusive) of the lazy group ([\s\S]*?) that starts at s: the
   least e >= s from which \s*''' matches *)
GroupEnd(str, s) ==
    MinOf({e \in s..Len(str) :
             LET f == SkipWs(str, e) IN f <= Len(str) /\ str[f] = Fence})

(* content.match(/'''(?:json)?\s*([\s\S]*?)\s*'''/): the leftmost fence that
   has a fence after it starts the match; the label is taken when it follows
   at once, \s* takes the whole run of whitespace, the group is lazy *)
FenceMatch(str) ==
    LET starts == {a \in Positions(str, Fence) :
                      \E b \in Positions(str, Fence) : b > a}
    IN  IF starts = {} THEN NoMatch
        ELSE LET a == MinOf(starts)
                 afterLabel == IF a + 1 <= Len(str) /\ str[a + 1] = JsonLabel
                               THEN a + 2 ELSE a + 1
                 s == SkipWs(str, afterLabel)
                 e == GroupEnd(str, s)
                 close == SkipWs(str, e)
             IN  [found |-> TRUE,
                  all |-> SubSeq(str, a, close),
                  group1 |-> SubSeq(str, s, e - 1)]

(* The span from the first opening brace to the first closing brace after it *)
BraceMatchLazy(str) ==
    LET opens == {a \in Positions(str, "{") :
                     \E b \in Positions(str, "}") : b > a}
    IN  IF opens = {} THEN NoMatch
        ELSE LET a == MinOf(opens)
                 b == MinOf({c \in Positions(str, "}") : c > a})
             IN  [found |-> TRUE, all |-> SubSeq(str, a, b), group1 |-> <<>>]

(* content.match(/\{[\s\S]*\}/): the leftmost opening brace that has a closing
   brace after it, up to the last closing brace *)
BraceMatch(str) ==
    LET opens == {a \in Positions(str, "{") :
                     \E b \in Positions(str, "}") : b > a}
    IN  IF opens = {} THEN NoMatch
        ELSE LET a == MinOf(opens)
                 b == MaxOf(Positions(str, "}"))
             IN  [found |-> TRUE, all |-> SubSeq(str, a, b), group1 |-> <<>>]

----------------------------------------------------------------------------
(* extractJsonFromResponse *)

Returns(v) == [kind |-> "return", v |-> v]

(* JSON.parse outside any try: a SyntaxError leaves the function *)
ParseNoCatch(str) ==
    LET r == JSONParse(str)
    IN  IF r.ok THEN Returns(r.v) ELSE [kind |-> "throw", v |-> Null]

(* JSON.parse inside the try block: the value, or null from the catch *)
ParseOrNull(str) ==
    LET r == JSONParse(str) IN IF r.ok THEN Returns(r.v) ELSE Returns(Null)

(* A version that goes on to the brace span when the fenced interior does not
   parse *)
extractJsonTryBoth(resp) ==
    IF ~resp.hasMessage
    THEN Returns(Null)
    ELSE LET content == resp.content
             jsonMatch == FenceMatch(content)
             possibleJson == BraceMatch(content)
         IN  IF /\ jsonMatch.found
                /\ jsonMatch.group1 # <<>>
                /\ JSONParse(Trim(jsonMatch.group1)).ok
             THEN ParseOrNull(Trim(jsonMatch.group1))
             ELSE IF possibleJson.found
                  THEN ParseOrNull(possibleJson.all)
                  ELSE Returns(Null)

extractJsonFromResponse(resp) ==
    IF ~resp.hasMessage
    THEN Returns(Null)      \* response.message.content throws a TypeError
    ELSE LET content == resp.content
             jsonMatch == FenceMatch(content)
         IN  IF jsonMatch.found /\ jsonMatch.group1 # <<>>
             THEN ParseOrNull(Trim(jsonMatch.group1))
             ELSE LET possibleJson == BraceMatch(content)
                  IN  IF possibleJson.found
                      THEN ParseOrNull(possibleJson.all)
                      ELSE Returns(Null)      \* "No JSON found in response"

Message(content) == [hasMessage |-> TRUE, content |-> content]

(* Responses beyond the enumerated ones: prose around a fenced block labelled
   json that holds {"a":1}, prose around a bare {"a":1}, a fenced block of
   prose followed by a fenced block labelled json that holds {"a":1}, and the
   literal null, bare and fenced *)
FencedExample ==
    <<Prose, " ", Fence, JsonLabel, "\n", "{", KeyA, "1", "}", "\n", Fence, " ", Prose>>

BareExample == <<Prose, " ", "{", KeyA, "1", "}", " ", Prose>>

TwoBlocksExample ==
    <<Fence, Prose, Fence, " ", Fence, JsonLabel, "{", KeyA, "1", "}", Fence>>

ExampleContents ==
    {FencedExample, BareExample, TwoBlocksExample, <<"null">>, <<Fence, "null", Fence>>}

NoMessage == [hasMessage |-> FALSE, content |-> <<>>]

----------------------------------------------------------------------------
(* splitIntoChunks *)

(* The string the boundary search runs on, with the search window reaching
   past the tentative end: text.substring(i) *)
SearchWindowRest(txt, from, end) == Substring(txt, from, Len(txt))

(* text.substring(i, end) *)
SearchWindow(txt, from, end) == Substring(txt, from, end)

(* An iteration that looks for a boundary also when the tentative end is the
   end of the text *)
ChunkEndSearchAtEnd(txt, size, from) ==
    LET end == Min(from + size, Len(txt))
        possibleEnd == SearchBoundary(SearchWindow(txt, from, end))
    IN  IF possibleEnd # -1 THEN from + possibleEnd + 2 ELSE end

(* An iteration that cuts at the terminator instead of two characters past
   it: end = i + possibleEnd *)
ChunkEndAtTerminator(txt, size, from) ==
    LET end == Min(from + size, Len(txt))
    IN  IF end < Len(txt)
        THEN LET possibleEnd == SearchBoundary(SearchWindow(txt, from, end))
             IN  IF possibleEnd # -1 THEN from + possibleEnd ELSE end
        ELSE end

(* One iteration of the while loop: the value of end at chunks.push *)
ChunkEnd(txt, size, from) ==
    LET end == Min(from + size, Len(txt))
    IN  IF end < Len(txt)
        THEN LET possibleEnd == SearchBoundary(SearchWindow(txt, from, end))
             IN  IF possibleEnd # -1 THEN from + possibleEnd + 2 ELSE end
        ELSE end

(* A cut that keeps the last five elements: chunks.slice(-5) *)
SpliceLast5(cs) == SubSeq(cs, Len(cs) - Min(Len(cs), ChunkCap) + 1, Len(cs))

(* A return without the cut: all the chunks of the scan *)
SpliceNone(cs) == cs

(* chunks.splice(0, 5): the first five elements *)
Splice05(cs) == SubSeq(cs, 1, Min(Len(cs), ChunkCap))

(* A scan that tests the offset after the push, not before: do { ... } while *)
RECURSIVE ScanChunksDoWhile(_, _, _, _)
ScanChunksDoWhile(txt, size, from, acc) ==
    LET end == IF from < Len(txt) THEN ChunkEnd(txt, size, from) ELSE Len(txt)
        pushed == Append(acc, Substring(txt, Min(from, Len(txt)), end))
    IN  IF end < Len(txt) THEN ScanChunksDoWhile(txt, size, end, pushed) ELSE pushed

RECURSIVE ScanChunks(_, _, _, _)
ScanChunks(txt, size, from, acc) ==
    IF from < Len(txt)
    THEN LET end == ChunkEnd(txt, size, from)
         IN  ScanChunks(txt, size, end, Append(acc, Substring(txt, from, end)))
    ELSE acc

(* The whole function *)
splitIntoChunks(txt, size) == Splice05(ScanChunks(txt, size, 0, <<>>))

JsonIdle ==
    /\ response = NoMessage
    /\ jpc = "idle"
    /\ outcome = Returns(Null)

PipelineIdle == reqs = <<>>

(* No call of fetchConfluenceDocuments or fetchJiraIssues *)
FetchIdle == fetch = [pc |-> "idle"]

(* No request on its way through the middleware stack *)
HttpIdle == http = [pc |-> "idle"]

ChunkerIdle ==
    /\ text = <<>>
    /\ chunkSize = 1
    /\ i = 0
    /\ chunks = <<>>
    /\ cpc = "idle"
    /\ returned = <<>>

ChunkInit ==
    /\ text \in SeqsUpTo(TextAlphabet, MaxTextLen)
    /\ chunkSize \in 1..MaxChunkSize
    /\ i = 0
    /\ chunks = <<>>
    /\ cpc = "loop"
    /\ returned = <<>>
    /\ JsonIdle
    /\ PipelineIdle
    /\ FetchIdle
    /\ HttpIdle

(* while (i < text.length) { ...; chunks.push(text.substring(i, end)); i = end } *)
ChunkStep ==
    /\ cpc = "loop"
    /\ i < Len(text)
    /\ LET end == ChunkEnd(text, chunkSize, i)
       IN  /\ chunks' = Append(chunks, Substring(text, i, end))
           /\ i' = end
    /\ UNCHANGED <<text, chunkSize, cpc, returned>>
    /\ UNCHANGED <<jsonVars, reqs, fetch, http>>

(* return chunks.splice(0, 5) *)
ChunkReturn ==
    /\ cpc = "loop"
    /\ ~(i < Len(text))
    /\ returned' = Splice05(chunks)
    /\ cpc' = "done"
    /\ UNCHANGED <<text, chunkSize, i, chunks>>
    /\ UNCHANGED <<jsonVars, reqs, fetch, http>>

ChunkNext == ChunkStep \/ ChunkReturn

SpecChunk == ChunkInit /\ [][ChunkNext]_vars

(* The loop is synchronous code: once called, it runs on until it returns *)
SpecChunkFair == ChunkInit /\ [][ChunkNext]_vars /\ WF_vars(ChunkNext)

----------------------------------------------------------------------------
(* extractJsonFromResponse, called on one response *)

JsonInit ==
    /\ response \in {Message(c) : c \in SeqsUpTo(JsonAlphabet, MaxContentLen)
                                           \cup ExampleContents}
                        \cup {NoMessage}
    /\ jpc = "call"
    /\ outcome = Returns(Null)
    /\ ChunkerIdle
    /\ PipelineIdle
    /\ FetchIdle
    /\ HttpIdle

ExtractJson ==
    /\ jpc = "call"
    /\ outcome' = extractJsonFromResponse(response)
    /\ jpc' = "done"
    /\ UNCHANGED response
    /\ UNCHANGED <<chunkVars, reqs, fetch, http>>

JsonNext == ExtractJson

SpecJson == JsonInit /\ [][JsonNext]_vars

----------------------------------------------------------------------------
(* The oracle (ollama.chat) and extractMetricsFromChunks *)

Sources == {"Jira", "Confluence"}

(* The requests that may be in progress *)
RequestIds == {1, 2}

(* The files the handler reads: empty, one chunk, two chunks with a sentence
   boundary, three chunks *)
DataFiles ==
    {<<>>, <<"a">>, <<"a", ".", " ", "b">>, <<"a", "b", "c", "d", "e", "f">>}

(* What the oracle may answer to an extraction call *)
Responses == {<<"p">>, <<"q", "q">>}

(* What the oracle may answer to the synthesis call: a report, bare and
   fenced; prose without JSON; the malformed {a: 1,}; a report with score 150;
   a report with projectHealth BLUE; the literal null *)
SynthContents ==
    {<<"{", HealthGreen, ",", ScoreOk, "}">>,
     <<Prose, " ", Fence, JsonLabel, "\n", "{", ScoreOk, "}", "\n", Fence>>,
     <<Prose>>,
     <<"{", Prose, ",", "}">>,
     <<"{", HealthGreen, ",", ScoreHigh, "}">>,
     <<"{", HealthBlue, ",", ScoreOk, "}">>,
     <<"null">>}

(* Messages whose system instruction names Jira whatever the source *)
ExtractMessagesJiraLabel(dataType, chunk) ==
    << [role |-> "system",
        content |-> <<"Extract key project health metrics from this ", "Jira",
                      " data chunk. Focus on quantitative data.">>],
       [role |-> "user", content |-> chunk] >>

(* The messages of the call for one chunk *)
ExtractMessages(dataType, chunk) ==
    << [role |-> "system",
        content |-> <<"Extract key project health metrics from this ", dataType,
                      " data chunk. Focus on quantitative data.">>],
       [role |-> "user", content |-> chunk] >>

ExtractCall(dataType, index, chunk) ==
    [kind |-> "extract", src |-> dataType, k |-> index,
     messages |-> ExtractMessages(dataType, chunk)]

(* Messages that carry the Jira summary under both labels *)
SynthMessagesJiraTwice(jiraMetrics, confluenceMetrics) ==
    << [role |-> "system",
        content |-> <<"Create a project health analysis in JSON format that can be parsed with JSON.parse">>],
       [role |-> "user", content |-> <<"Jira metrics: ">> \o jiraMetrics],
       [role |-> "user", content |-> <<"Confluence metrics: ">> \o jiraMetrics],
       [role |-> "user", content |-> <<"Based on these metrics, this project health analysis of given JSON format type ...">>] >>

(* getProjectHealthAnalysis: the messages of the synthesis call *)
SynthMessages(jiraMetrics, confluenceMetrics) ==
    << [role |-> "system",
        content |-> <<"Create a project health analysis in JSON format that can be parsed with JSON.parse">>],
       [role |-> "user", content |-> <<"Jira metrics: ">> \o jiraMetrics],
       [role |-> "user", content |-> <<"Confluence metrics: ">> \o confluenceMetrics],
       [role |-> "user", content |-> <<"Based on these metrics, this project health analysis of given JSON format type ...">>] >>

getProjectHealthAnalysis(jiraMetrics, confluenceMetrics) ==
    [kind |-> "synth", src |-> "both", k |-> 0,
     messages |-> SynthMessages(jiraMetrics, confluenceMetrics)]

(* ollama.chat(...) is called: the call is in flight *)
IssueCall(q, call) ==
    [q EXCEPT !.pending = @ \cup {call},
              !.log = Append(@, [ev |-> "issue", call |-> call, content |-> <<>>])]

(* extractedData.join(sep) with one newline as the separator *)
RECURSIVE JoinOneNewline(_)
JoinOneNewline(parts) ==
    IF parts = <<>> THEN <<>>
    ELSE IF Len(parts) = 1 THEN parts[1]
    ELSE parts[1] \o <<"\n">> \o JoinOneNewline(Tail(parts))

(* extractedData.join("\n\n") *)
RECURSIVE JoinBlankLine(_)
JoinBlankLine(parts) ==
    IF parts = <<>> THEN <<>>
    ELSE IF Len(parts) = 1 THEN parts[1]
    ELSE parts[1] \o <<"\n", "\n">> \o JoinBlankLine(Tail(parts))

(* The calls a loop that does not await would issue on entry: all of them *)
LoopCallsAtOnce(chunkList, index) ==
    IF index = 0 THEN 0..(Len(chunkList) - 1) ELSE {}

(* The calls the for loop issues when it reaches iteration index: the one for
   that chunk, and await suspends the loop until it returns *)
LoopCalls(chunkList, index) == IF index < Len(chunkList) THEN {index} ELSE {}

RECURSIVE IssueAll(_, _, _)
IssueAll(q, src, ks) ==
    IF ks = {} THEN q
    ELSE LET k == MinOf(ks)
         IN  IssueAll(IssueCall(q, ExtractCall(src, k, q.chunks[src][k + 1])), src, ks \ {k})

(* extractMetricsFromChunks from iteration index on, up to its next await or
   its return *)
ContinueExtract(q, src) ==
    LET e == q.ext[src]
    IN  IF e.index < Len(q.chunks[src])
        THEN IssueAll(q, src, LoopCalls(q.chunks[src], e.index))
        ELSE [q EXCEPT !.ext[src].status = "resolved",
                       !.ext[src].value = JoinBlankLine(e.extractedData)]

(* extractMetricsFromChunks(chunks, dataType) is called *)
extractMetricsFromChunks(q, src) ==
    ContinueExtract(
        [q EXCEPT !.ext[src] = [status |-> "running", index |-> 0,
                                extractedData |-> <<>>, value |-> <<>>]],
        src)

----------------------------------------------------------------------------
(* The GET /api/project-health handler *)

(* The routes registered with app.get *)
PipelineRoute == "/api/project-health"

TestRoute == "/api/project-health-test"

(* sampleData of the test endpoint: the members a report of the model has *)
SampleData == Obj(<< <<"projectHealth", Str("GREEN")>>, <<"score", Num(92)>> >>)

ErrorBody == Obj(<< <<"error", Str("Failed to analyze project health")>> >>)

(* A catch that swallows the error and answers with an empty report *)
CatchSwallow(q) ==
    [q EXCEPT !.pc = "done",
              !.sent = Append(@, [status |-> 200, body |-> Obj(<<>>)])]

(* A catch that logs the error and sends nothing *)
CatchLogsOnly(q) == [q EXCEPT !.pc = "done"]

(* catch (error) { res.status(500).send({ error: ... }) } *)
Catch(q) ==
    [q EXCEPT !.pc = "done",
              !.sent = Append(@, [status |-> 500, body |-> ErrorBody])]

(* A handler that answers with the sample report whatever the oracle said *)
SendSample(q, aiResponse) ==
    [q EXCEPT !.pc = "done",
              !.aiResponse = aiResponse,
              !.sent = Append(@, [status |-> 200, body |-> SampleData])]

(* res.send(extractJsonFromResponse(aiResponse)) *)
SendResult(q, aiResponse) ==
    [q EXCEPT !.pc = "done",
              !.aiResponse = aiResponse,
              !.sent = Append(@, [status |-> 200,
                                  body |-> extractJsonFromResponse(aiResponse).v])]

(* A handler that goes on without awaiting the extraction *)
SettledNoAwait(q, src) == TRUE

(* A handler that calls the Jira extraction without await and goes on *)
SettledJiraNotAwaited(q, src) ==
    src = "Jira" \/ q.ext[src].status \in {"resolved", "rejected"}

(* await extractMetricsFromChunks(...): the handler goes on once the
   extraction is settled *)
Settled(q, src) == q.ext[src].status \in {"resolved", "rejected"}

(* The handler from its position pc up to its next suspension *)
RECURSIVE Advance(_)
Advance(q) ==
    CASE q.pc = "callJira" ->
            Advance([extractMetricsFromChunks(q, "Jira") EXCEPT !.pc = "awaitJira"])
      [] q.pc = "awaitJira" ->
            IF ~Settled(q, "Jira") THEN q
            ELSE IF q.ext["Jira"].status = "rejected" THEN Catch(q)
            ELSE Advance([q EXCEPT !.jiraMetrics = q.ext["Jira"].value,
                                   !.pc = "callConfluence"])
      [] q.pc = "callConfluence" ->
            Advance([extractMetricsFromChunks(q, "Confluence") EXCEPT !.pc = "awaitConfluence"])
      [] q.pc = "awaitConfluence" ->
            IF ~Settled(q, "Confluence") THEN q
            ELSE IF q.ext["Confluence"].status = "rejected" THEN Catch(q)
            ELSE Advance([q EXCEPT !.confluenceMetrics = q.ext["Confluence"].value,
                                   !.pc = "callSynth"])
      [] q.pc = "callSynth" ->
            [IssueCall(q, getProjectHealthAnalysis(q.jiraMetrics, q.confluenceMetrics))
                EXCEPT !.pc = "awaitSynth"]
      [] OTHER -> q

NotCalled == [status |-> "notCalled", index |-> 0, extractedData |-> <<>>, value |-> <<>>]

NewRequest(route, jiraData, confluenceData) ==
    [pc |-> "received",
     route |-> route,
     jiraData |-> jiraData,
     confluenceData |-> confluenceData,
     chunks |-> [src \in Sources |-> <<>>],
     ext |-> [src \in Sources |-> NotCalled],
     jiraMetrics |-> <<>>,
     confluenceMetrics |-> <<>>,
     aiResponse |-> NoMessage,
     pending |-> {},
     log |-> <<>>,
     sent |-> <<>>]

PipelineInit ==
    /\ reqs \in [{1} -> {NewRequest(PipelineRoute, j, c) : j \in DataFiles, c \in DataFiles}
                            \cup {NewRequest(TestRoute, <<>>, <<>>)}]
    /\ ChunkerIdle
    /\ JsonIdle
    /\ FetchIdle
    /\ HttpIdle

(* The handler runs: it reads the two files, splits them and calls
   extractMetricsFromChunks for Jira *)
HandleRequest(r) ==
    /\ r \in DOMAIN reqs
    /\ reqs[r].route = PipelineRoute
    /\ reqs[r].pc = "received"
    /\ LET q == reqs[r]
           split == [q EXCEPT !.chunks =
                        [src \in Sources |->
                            IF src = "Jira"
                            THEN splitIntoChunks(q.jiraData, PipelineChunkSize)
                            ELSE splitIntoChunks(q.confluenceData, PipelineChunkSize)],
                              !.pc = "callJira"]
       IN  reqs' = [reqs EXCEPT ![r] = Advance(split)]
    /\ UNCHANGED <<chunkVars, jsonVars, fetch, http>>

(* The handler runs and fs.readFileSync throws *)
HandleRequestReadError(r) ==
    /\ r \in DOMAIN reqs
    /\ reqs[r].route = PipelineRoute
    /\ reqs[r].pc = "received"
    /\ reqs' = [reqs EXCEPT ![r] = Catch(reqs[r])]
    /\ UNCHANGED <<chunkVars, jsonVars, fetch, http>>

(* The handler of the test endpoint runs: res.json(sampleData) *)
HandleTestRequest(r) ==
    /\ r \in DOMAIN reqs
    /\ reqs[r].route = TestRoute
    /\ reqs[r].pc = "received"
    /\ reqs' = [reqs EXCEPT ![r] =
                    [@ EXCEPT !.pc = "done",
                              !.sent = Append(@, [status |-> 200, body |-> SampleData])]]
    /\ UNCHANGED <<chunkVars, jsonVars, fetch, http>>

Returned(q, call, content) ==
    [q EXCEPT !.pending = @ \ {call},
              !.log = Append(@, [ev |-> "return", call |-> call, content |-> content])]

Failed(q, call) ==
    [q EXCEPT !.pending = @ \ {call},
              !.log = Append(@, [ev |-> "fail", call |-> call, content |-> <<>>])]

(* A loop that skips the chunk whose call failed and goes on with the next *)
AwaitSkips(q, src) == ContinueExtract([q EXCEPT !.ext[src].index = @ + 1], src)

(* await ollama.chat(...) throws inside the for loop, which has no try: the
   loop is left and the promise of extractMetricsFromChunks is rejected *)
AwaitThrows(q, src) == [q EXCEPT !.ext[src].status = "rejected"]

(* A push to one extractedData array that all running extractions of a source
   share, as a module-level array would be *)
PushShared(rs, r, src, content) ==
    [x \in DOMAIN rs |->
        IF x = r \/ rs[x].ext[src].status = "running"
        THEN [rs[x] EXCEPT !.ext[src].extractedData = Append(@, content)]
        ELSE rs[x]]

(* extractedData.push(response.message.content): extractedData is a const of
   the invocation of extractMetricsFromChunks that request r made *)
Push(rs, r, src, content) ==
    [rs EXCEPT ![r].ext[src].extractedData = Append(@, content)]

(* An extraction call returns: extractedData.push(response.message.content),
   the loop goes on, and the handler with it when the extraction returns *)
ExtractReturns(r, content) ==
    /\ r \in DOMAIN reqs
    /\ \E call \in reqs[r].pending :
          /\ call.kind = "extract"
          /\ LET pushed == Push([reqs EXCEPT ![r] = Returned(@, call, content)],
                                r, call.src, content)
             IN  reqs' = [pushed EXCEPT ![r] =
                             Advance(ContinueExtract([@ EXCEPT !.ext[call.src].index = @ + 1],
                                                     call.src))]
    /\ UNCHANGED <<chunkVars, jsonVars, fetch, http>>

(* An extraction call fails: the await throws, extractMetricsFromChunks
   rejects, and the handler's await throws into its catch *)
ExtractFails(r) ==
    /\ r \in DOMAIN reqs
    /\ \E call \in reqs[r].pending :
          /\ call.kind = "extract"
          /\ reqs' = [reqs EXCEPT ![r] =
                          Advance(AwaitThrows(Failed(reqs[r], call), call.src))]
    /\ UNCHANGED <<chunkVars, jsonVars, fetch, http>>

(* The synthesis call returns *)
SynthReturns(r, content) ==
    /\ r \in DOMAIN reqs
    /\ reqs[r].pc = "awaitSynth"
    /\ \E call \in reqs[r].pending :
          /\ call.kind = "synth"
          /\ reqs' = [reqs EXCEPT ![r] = SendResult(Returned(reqs[r], call, content),
                                                     Message(content))]
    /\ UNCHANGED <<chunkVars, jsonVars, fetch, http>>

(* The synthesis call fails *)
SynthFails(r) ==
    /\ r \in DOMAIN reqs
    /\ reqs[r].pc = "awaitSynth"
    /\ \E call \in reqs[r].pending :
          /\ call.kind = "synth"
          /\ reqs' = [reqs EXCEPT ![r] = Catch(Failed(reqs[r], call))]
    /\ UNCHANGED <<chunkVars, jsonVars, fetch, http>>

PipelineNext ==
    \/ \E r \in RequestIds : HandleRequest(r)
    \/ \E r \in RequestIds : HandleRequestReadError(r)
    \/ \E r \in RequestIds : HandleTestRequest(r)
    \/ \E r \in RequestIds : \E content \in Responses : ExtractReturns(r, content)
    \/ \E r \in RequestIds : ExtractFails(r)
    \/ \E r \in RequestIds : \E content \in SynthContents : SynthReturns(r, content)
    \/ \E r \in RequestIds : SynthFails(r)

Spec == PipelineInit /\ [][PipelineNext]_vars

(* Two requests in progress together: each for the pipeline with its own
   files, or for the test endpoint; their handlers interleave at the awaits *)
ConcurrentRequests ==
    {NewRequest(PipelineRoute, <<"a", ".", " ", "b">>, <<"a">>),
     NewRequest(PipelineRoute, <<"a">>, <<>>),
     NewRequest(TestRoute, <<>>, <<>>)}

ConcurrentInit ==
    /\ reqs \in [RequestIds -> ConcurrentRequests]
    /\ ChunkerIdle
    /\ JsonIdle
    /\ FetchIdle
    /\ HttpIdle

SpecConcurrent == ConcurrentInit /\ [][PipelineNext]_vars

(* The handler runs once its request has arrived, and every oracle call in
   flight eventually returns or fails *)
SpecFair == PipelineInit /\ [][PipelineNext]_vars /\ WF_vars(PipelineNext)

(* splitIntoChunks called on its own, with any chunk size, or by the handler *)
SplitOrPipelineInit == ChunkInit \/ PipelineInit

SplitOrPipelineNext == ChunkNext \/ PipelineNext

SpecSplitOrPipeline == SplitOrPipelineInit /\ [][SplitOrPipelineNext]_vars

----------------------------------------------------------------------------
(* executeConfluenceScript and executeJiraScript: the values passed in, and
   the validation that precedes the spawn.  A string is a sequence of
   characters; "https://" and ".atlassian.net" stand as one token each. *)

Undefined == [t |-> "undefined"]

(* Object.create(null): a value String() cannot convert *)
Bare == [t |-> "bare"]

Arr(a) == [t |-> "arr", a |-> a]

Digit == {"0", "1", "2", "3", "4", "5", "6", "7", "8", "9"}

Upper == {"A", "B", "C", "D", "E", "F", "G", "H", "I", "J", "K", "L", "M",
          "N", "O", "P", "Q", "R", "S", "T", "U", "V", "W", "X", "Y", "Z"}

DigitChars == <<"0", "1", "2", "3", "4", "5", "6", "7", "8", "9">>

LineTerminators == {"\n", "\r"}

RECURSIVE Decimal(_)
Decimal(n) ==
    IF n < 10 THEN <<DigitChars[n + 1]>>
    ELSE Decimal(n \div 10) \o <<DigitChars[(n % 10) + 1]>>

(* String(v) throws a TypeError *)
StringOfThrows(v) == v.t = "bare"

(* String(v) *)
StringOf(v) ==
    CASE v.t = "str" -> v.s
      [] v.t = "num" -> Decimal(v.n)
      [] v.t = "undefined" -> <<"u", "n", "d", "e", "f", "i", "n", "e", "d">>
      [] v.t = "null" -> <<"n", "u", "l", "l">>

(* id && /^\d+$/.test(id) *)
IsNumericId(id) == id # <<>> /\ \A p \in 1..Len(id) : id[p] \in Digit

(* link.match(/https?:\/\/.*\.atlassian\.net/) *)
UrlMatch(link) ==
    \E p \in 1..Len(link) : \E q \in (p + 1)..Len(link) :
        /\ link[p] \in {"http://", "https://"}
        /\ link[q] = ".atlassian.net"
        /\ \A m \in (p + 1)..(q - 1) : link[m] \notin LineTerminators

(* link.match(/^[A-Z0-9]+-\d+$/) *)
KeyMatch(link) ==
    \E h \in 2..(Len(link) - 1) :
        /\ link[h] = "-"
        /\ \A m \in 1..(h - 1) : link[m] \in Upper \cup Digit
        /\ \A m \in (h + 1)..Len(link) : link[m] \in Digit

IsJiraLink(link) == link # <<>> /\ (UrlMatch(link) \/ KeyMatch(link))

Scripts == {"confluence", "jira"}

IsValidEntry(script, entry) ==
    IF script = "confluence" THEN IsNumericId(entry) ELSE IsJiraLink(entry)

(* entries.map(e => String(e).trim()).filter(valid) *)
ValidEntries(script, entries) ==
    LET cleaned == [p \in 1..Len(entries) |-> Trim(StringOf(entries[p]))]
        Valid(e) == IsValidEntry(script, e)
    IN  SelectSeq(cleaned, Valid)

(* The objects the promise is rejected with; ids is processedIds for the
   Confluence script and inputLinks for the Jira script *)
InvalidInput(script) ==
    [success |-> FALSE,
     error |-> IF script = "confluence"
               THEN "Invalid input: confluenceIds must be an array"
               ELSE "Invalid input: jiraLinks must be a string or array"]

EmptyInput(script) ==
    [success |-> FALSE,
     error |-> IF script = "confluence" THEN "Empty array provided"
               ELSE "Empty input provided"]

NoValidEntry(script) ==
    [success |-> FALSE,
     error |-> IF script = "confluence" THEN "No valid confluence IDs found"
               ELSE "No valid Jira links or issue keys found"]

(* The TypeError String() throws inside the executor *)
ConversionError == [name |-> "TypeError", message |-> "Cannot convert object to primitive value"]

(* The exception spawn throws when it fails at once *)
SpawnException == [name |-> "Error", message |-> "spawn"]

(* The executor of the promise up to the spawn: what it ends in *)
ExecutorStart(script, input) ==
    LET isList == input.t = "arr"
        entries == IF script = "jira" /\ input.t = "str" THEN <<input>>
                   ELSE IF isList THEN input.a ELSE <<>>
    IN  IF ~isList /\ ~(script = "jira" /\ input.t = "str")
        THEN [kind |-> "reject", value |-> InvalidInput(script)]
        ELSE IF Len(entries) = 0
        THEN [kind |-> "reject", value |-> EmptyInput(script)]
        ELSE IF \E p \in 1..Len(entries) : StringOfThrows(entries[p])
        THEN [kind |-> "throw", value |-> ConversionError]
        ELSE IF Len(ValidEntries(script, entries)) = 0
        THEN [kind |-> "reject", value |-> NoValidEntry(script)]
        ELSE [kind |-> "spawn", args |-> ValidEntries(script, entries)]

executeConfluenceScript(confluenceIds) == ExecutorStart("confluence", confluenceIds)

executeJiraScript(jiraLinks) == ExecutorStart("jira", jiraLinks)

(* The data events a stream may deliver at most *)
MaxData == 1

StdoutChunks == {<<"o", "k", "\n">>, <<" ">>}

StderrChunks == {<<"e", "r", "r">>}

(* code of the close event: 0, 1, or null when a signal ended the process *)
ExitCodes == {Num(0), Num(1), Null}

(* stderr.trim() || stdout.trim() || 'Unknown error occurred' *)
Details(stdout, stderr) ==
    IF Trim(stderr) # <<>> THEN Trim(stderr)
    ELSE IF Trim(stdout) # <<>> THEN Trim(stdout)
    ELSE <<"Unknown error occurred">>

(* The object the promise is resolved with; the fields computed from the
   text of the output (counts, failure reasons) are left out *)
SuccessResponse(f) ==
    [success |-> TRUE,
     message |-> IF f.script = "confluence"
                 THEN "Confluence script executed successfully"
                 ELSE "Jira script executed successfully",
     ids |-> f.validEntries,
     output |-> Trim(f.stdout),
     outputFile |-> IF f.script = "confluence" THEN "confluence_documents_data.txt"
                    ELSE "jira_epic_data.txt"]

ExitError(f, code) ==
    [success |-> FALSE,
     error |-> "Ruby script exited with code",
     details |-> Details(f.stdout, f.stderr),
     ids |-> f.validEntries,
     exitCode |-> code]

ProcessError ==
    [success |-> FALSE, error |-> "Failed to execute Ruby script"]

TimeoutError(f) ==
    [success |-> FALSE, error |-> "Script execution timeout", ids |-> f.validEntries]

(* The wrapper: try { return await execute...(...) } catch (error) { return error } *)
WrapperResult(state, value) == [state |-> "fulfilled", value |-> value]

(* A promise that every resolve or reject call settles anew *)
SettleAgain(f, state, value) ==
    [f EXCEPT !.promise = [state |-> state, value |-> value],
              !.result = WrapperResult(state, value)]

(* resolve(value) or reject(value): the first call settles the promise, and
   the wrapper that awaits it goes on; a later call changes nothing *)
Settle(f, state, value) ==
    IF f.promise.state = "pending"
    THEN [f EXCEPT !.promise = [state |-> state, value |-> value],
                   !.result = WrapperResult(state, value)]
    ELSE f

Unsettled == [state |-> "pending", value |-> Undefined]

NewFetch(script, input) ==
    [pc |-> "call",
     script |-> script,
     input |-> input,
     validEntries |-> <<>>,
     spawns |-> <<>>,
     kills |-> 0,
     ndata |-> <<0, 0>>,
     stdout |-> <<>>,
     stderr |-> <<>>,
     child |-> "none",
     timer |-> "none",
     promise |-> Unsettled,
     result |-> Unsettled]

(* The ids fetchConfluenceDocuments is called with: no array; the empty
   array; one id; an id with blanks around it, a word and a number; a word
   and the empty string; a value String() cannot convert *)
ConfluenceInputs ==
    {Undefined,
     Str(<<"1", "2">>),
     Arr(<<>>),
     Arr(<<Str(<<"1", "2">>)>>),
     Arr(<<Str(<<" ", "7", " ">>), Str(<<"a">>), Num(42)>>),
     Arr(<<Str(<<"a">>), Str(<<>>)>>),
     Arr(<<Bare>>)}

(* The links fetchJiraIssues is called with: neither string nor array; one
   key as a string; a word as a string; the empty array; a URL, a word and a
   key with blanks around it; a lower-case key; a value String() cannot
   convert *)
JiraInputs ==
    {Undefined,
     Str(<<"A", "1", "-", "6">>),
     Str(<<"a">>),
     Arr(<<>>),
     Arr(<<Str(<<"https://", "x", ".atlassian.net", "/", "A", "-", "1">>),
           Str(<<"x">>),
           Str(<<" ", "P", "-", "2", "\n">>)>>),
     Arr(<<Str(<<"p", "-", "2">>)>>),
     Arr(<<Bare>>)}

FetchInit ==
    /\ fetch \in {NewFetch("confluence", input) : input \in ConfluenceInputs}
                    \cup {NewFetch("jira", input) : input \in JiraInputs}
    /\ ChunkerIdle
    /\ JsonIdle
    /\ PipelineIdle
    /\ HttpIdle

(* The wrapper is called and the executor runs: it rejects, throws, or spawns
   the script, registers its listeners and arms the timer *)
FetchCall ==
    /\ fetch.pc = "call"
    /\ LET start == IF fetch.script = "confluence"
                    THEN executeConfluenceScript(fetch.input)
                    ELSE executeJiraScript(fetch.input)
       IN  fetch' =
             IF start.kind = "spawn"
             THEN [fetch EXCEPT !.pc = "spawned",
                                !.validEntries = start.args,
                                !.spawns = Append(@, start.args),
                                !.child = "alive",
                                !.timer = "armed"]
             ELSE Settle([fetch EXCEPT !.pc = "over"], "rejected", start.value)
    /\ UNCHANGED <<chunkVars, jsonVars, reqs, http>>

(* The wrapper is called and spawn throws at once: the executor ends with the
   exception, before any listener or timer is set *)
FetchCallSpawnThrows ==
    /\ fetch.pc = "call"
    /\ LET start == IF fetch.script = "confluence"
                    THEN executeConfluenceScript(fetch.input)
                    ELSE executeJiraScript(fetch.input)
       IN  /\ start.kind = "spawn"
           /\ fetch' = Settle([fetch EXCEPT !.pc = "over",
                                            !.validEntries = start.args,
                                            !.spawns = Append(@, start.args)],
                              "rejected", SpawnException)
    /\ UNCHANGED <<chunkVars, jsonVars, reqs, http>>

(* rubyProcess.stdout.on('data'): stdout += output *)
StdoutData(chunk) ==
    /\ fetch.pc = "spawned"
    /\ fetch.child \in {"alive", "errored"}
    /\ fetch.ndata[1] < MaxData
    /\ fetch' = [fetch EXCEPT !.stdout = @ \o chunk, !.ndata[1] = @ + 1]
    /\ UNCHANGED <<chunkVars, jsonVars, reqs, http>>

(* rubyProcess.stderr.on('data'): stderr += error *)
StderrData(chunk) ==
    /\ fetch.pc = "spawned"
    /\ fetch.child \in {"alive", "errored"}
    /\ fetch.ndata[2] < MaxData
    /\ fetch' = [fetch EXCEPT !.stderr = @ \o chunk, !.ndata[2] = @ + 1]
    /\ UNCHANGED <<chunkVars, jsonVars, reqs, http>>

(* rubyProcess.on('close'), both listeners: resolve or reject by the code,
   then clearTimeout(timeout) *)
ChildClose(code) ==
    /\ fetch.pc = "spawned"
    /\ fetch.child \in {"alive", "errored"}
    /\ LET settled == IF code = Num(0)
                      THEN Settle(fetch, "fulfilled", SuccessResponse(fetch))
                      ELSE Settle(fetch, "rejected", ExitError(fetch, code))
       IN  fetch' = [settled EXCEPT !.child = "closed",
                                    !.timer = IF @ = "armed" THEN "cleared" ELSE @]
    /\ UNCHANGED <<chunkVars, jsonVars, reqs, http>>

(* rubyProcess.on('error') *)
ChildError ==
    /\ fetch.pc = "spawned"
    /\ fetch.child = "alive"
    /\ fetch' = [Settle(fetch, "rejected", ProcessError) EXCEPT !.child = "errored"]
    /\ UNCHANGED <<chunkVars, jsonVars, reqs, http>>

(* The timer fires: rubyProcess.kill('SIGTERM') and reject *)
TimeoutFires ==
    /\ fetch.pc = "spawned"
    /\ fetch.timer = "armed"
    /\ fetch' = [Settle(fetch, "rejected", TimeoutError(fetch))
                    EXCEPT !.timer = "fired", !.kills = @ + 1]
    /\ UNCHANGED <<chunkVars, jsonVars, reqs, http>>

FetchNext ==
    \/ FetchCall
    \/ FetchCallSpawnThrows
    \/ \E chunk \in StdoutChunks : StdoutData(chunk)
    \/ \E chunk \in StderrChunks : StderrData(chunk)
    \/ \E code \in ExitCodes : ChildClose(code)
    \/ ChildError
    \/ TimeoutFires

SpecFetch == FetchInit /\ [][FetchNext]_vars

----------------------------------------------------------------------------
(* The Express application of server.js: the middleware and the routes, tried
   in the order of their registration.  A path is the sequence of its
   segments; a trailing slash is an empty last segment *)

Methods == {"GET", "HEAD", "POST", "PUT", "DELETE", "OPTIONS"}

ProductsPath == <<"api", "products">>

ProjectHealthPath == <<"api", "project-health">>

(* The requests of the model: the root, the pipeline's path bare, with a
   trailing slash and with an id segment, a path that only starts alike, the
   products path and a path nothing is registered for *)
Paths ==
    {<<>>,
     ProjectHealthPath,
     ProjectHealthPath \o <<"">>,
     ProjectHealthPath \o <<"42">>,
     <<"api", "project-health-test">>,
     ProductsPath,
     <<"other">>}

(* The body of a request: none or well-formed JSON, or JSON that does not parse *)
Bodies == {"none", "malformed"}

(* A path without its trailing slash: routing is not strict *)
Segments(path) ==
    IF path # <<>> /\ path[Len(path)] = "" THEN SubSeq(path, 1, Len(path) - 1) ELSE path

(* A route's path pattern against a whole path: segment by segment, :id
   standing for any segment *)
RouteMatches(pattern, path) ==
    /\ Len(Segments(path)) = Len(pattern)
    /\ \A n \in 1..Len(pattern) :
          pattern[n] = ":id" \/ Segments(path)[n] = pattern[n]

(* The path of app.use against the start of a path, up to a segment end *)
PrefixMatches(prefix, path) ==
    Len(path) >= Len(prefix) /\ SubSeq(path, 1, Len(prefix)) = prefix

(* A route registered with get serves HEAD as well, no head route being
   registered anywhere *)
HandlesMethod(routeMethod, method) ==
    method = routeMethod \/ (routeMethod = "GET" /\ method = "HEAD")

(* routes/products.js *)
productRoutes ==
    << [method |-> "POST", pattern |-> <<>>, handler |-> "createProduct"],
       [method |-> "GET", pattern |-> <<>>, handler |-> "getProducts"],
       [method |-> "GET", pattern |-> <<":id">>, handler |-> "getProductById"],
       [method |-> "PUT", pattern |-> <<":id">>, handler |-> "updateProduct"],
       [method |-> "DELETE", pattern |-> <<":id">>, handler |-> "deleteProduct"] >>

(* routes/projectHealth.js *)
projectHealthRoutes ==
    << [method |-> "POST", pattern |-> <<>>, handler |-> "createReport"],
       [method |-> "GET", pattern |-> <<>>, handler |-> "getReports"],
       [method |-> "GET", pattern |-> <<":id">>, handler |-> "getReportById"],
       [method |-> "PUT", pattern |-> <<":id">>, handler |-> "updateReport"],
       [method |-> "DELETE", pattern |-> <<":id">>, handler |-> "deleteReport"] >>

(* A router on the rest of the path: the handler of its first route that
   matches, or next when none does *)
RouterHandle(routes, method, rest) ==
    LET hits == {n \in 1..Len(routes) :
                    /\ HandlesMethod(routes[n].method, method)
                    /\ RouteMatches(routes[n].pattern, rest)}
    IN  IF hits = {} THEN "next" ELSE routes[MinOf(hits)].handler

Middleware(name) == [kind |-> "middleware", name |-> name]

Route(method, path, name) ==
    [kind |-> "route", name |-> name, method |-> method, path |-> path]

Mount(path, name, routes) ==
    [kind |-> "router", name |-> name, path |-> path, routes |-> routes]

(* A stack with the CRUD router mounted before the pipeline's route *)
LayersRouterFirst ==
    << Middleware("helmet"),
       Middleware("cors"),
       Middleware("express.json"),
       Mount(ProductsPath, "productRoutes", productRoutes),
       Mount(ProjectHealthPath, "projectHealthRoutes", projectHealthRoutes),
       Route("GET", ProjectHealthPath, "pipeline"),
       Route("GET", <<>>, "healthCheck"),
       Middleware("notFound") >>

(* The stack of the application, in the order of the calls of app.use and
   app.get *)
Layers ==
    << Middleware("helmet"),
       Middleware("cors"),
       Middleware("express.json"),
       Mount(ProductsPath, "productRoutes", productRoutes),
       Route("GET", ProjectHealthPath, "pipeline"),
       Mount(ProjectHealthPath, "projectHealthRoutes", projectHealthRoutes),
       Route("GET", <<>>, "healthCheck"),
       Middleware("notFound") >>

PassOn == [kind |-> "next", by |-> "none"]

Ends(name) == [kind |-> "end", by |-> name]

Errors == [kind |-> "error", by |-> "errorHandler"]

(* The layer is entered: a middleware always, a route when method and path
   match, a router when its path is a prefix of the request's *)
Enters(layer, h) ==
    CASE layer.kind = "middleware" -> TRUE
      [] layer.kind = "route" ->
            HandlesMethod(layer.method, h.method) /\ RouteMatches(layer.path, h.path)
      [] layer.kind = "router" -> PrefixMatches(layer.path, h.path)

(* What the layer does with the request once entered: cors answers every
   OPTIONS request itself; express.json passes a body that does not parse to
   the error handler; with notFound the request has left the routes (what
   notFound and errorHandler answer is left open); a route's handler sends
   the response and never calls next; a router calls next when none of its
   routes matches *)
LayerOutcome(layer, h) ==
    CASE layer.kind = "middleware" ->
            IF layer.name = "cors" /\ h.method = "OPTIONS" THEN Ends("cors")
            ELSE IF layer.name = "express.json" /\ h.body = "malformed" THEN Errors
            ELSE IF layer.name = "notFound" THEN Ends("notFound")
            ELSE PassOn
      [] layer.kind = "route" -> Ends(layer.name)
      [] layer.kind = "router" ->
            LET handler == RouterHandle(layer.routes, h.method,
                                        SubSeq(h.path, Len(layer.path) + 1, Len(h.path)))
            IN  IF handler = "next" THEN PassOn ELSE Ends(handler)

NewHttp(method, path, body) ==
    [pc |-> "dispatch",
     method |-> method,
     path |-> path,
     body |-> body,
     layer |-> 1,
     entered |-> <<>>,
     handledBy |-> "none"]

HttpInit ==
    /\ http \in {NewHttp(m, p, b) : m \in Methods, p \in Paths, b \in Bodies}
    /\ ChunkerIdle
    /\ JsonIdle
    /\ PipelineIdle
    /\ FetchIdle

(* The layer does not match, and the next one is tried *)
LayerSkipped ==
    /\ http.pc = "dispatch"
    /\ ~Enters(Layers[http.layer], http)
    /\ http' = [http EXCEPT !.layer = @ + 1]
    /\ UNCHANGED <<chunkVars, jsonVars, reqs, fetch>>

(* The layer is entered and calls next() *)
LayerCallsNext ==
    /\ http.pc = "dispatch"
    /\ Enters(Layers[http.layer], http)
    /\ LayerOutcome(Layers[http.layer], http).kind = "next"
    /\ http' = [http EXCEPT !.layer = @ + 1,
                            !.entered = Append(@, Layers[http.layer].name)]
    /\ UNCHANGED <<chunkVars, jsonVars, reqs, fetch>>

(* The layer is entered and one of its handlers answers the request, or it
   calls next(error) and the error handler answers it *)
LayerEnds ==
    /\ http.pc = "dispatch"
    /\ Enters(Layers[http.layer], http)
    /\ LayerOutcome(Layers[http.layer], http).kind \in {"end", "error"}
    /\ http' = [http EXCEPT !.pc = "done",
                            !.entered = Append(@, Layers[http.layer].name),
                            !.handledBy = LayerOutcome(Layers[http.layer], http).by]
    /\ UNCHANGED <<chunkVars, jsonVars, reqs, fetch>>

HttpNext == LayerSkipped \/ LayerCallsNext \/ LayerEnds

SpecHttp == HttpInit /\ [][HttpNext]_vars

----------------------------------------------------------------------------
(* Notions the properties are stated with *)

RECURSIVE Concat(_)
Concat(ss) == IF ss = <<>> THEN <<>> ELSE Head(ss) \o Concat(Tail(ss))

IsWs(tok) == tok \in Whitespace

NotWs(tok) == tok \notin Whitespace

(* Strict JSON, as a grammar over the tokens (whitespace may stand between
   any two tokens):  value ::= 1 | null | { } | { members }
                     members ::= member | member , members
                     member ::= "key":scalar | "key": value *)
RECURSIVE IsValue(_)
RECURSIVE IsMember(_)
RECURSIVE IsMembers(_)

IsValue(s) ==
    \/ Len(s) = 1 /\ s[1] \in ScalarTokens
    \/ /\ Len(s) >= 2
       /\ s[1] = "{"
       /\ s[Len(s)] = "}"
       /\ (Len(s) = 2 \/ IsMembers(SubSeq(s, 2, Len(s) - 1)))

IsMember(s) ==
    \/ Len(s) = 1 /\ s[1] \in MemberTokens
    \/ Len(s) >= 2 /\ s[1] \in KeyTokens /\ IsValue(Tail(s))

IsMembers(s) ==
    \/ IsMember(s)
    \/ \E k \in 2..(Len(s) - 1) :
          /\ s[k] = ","
          /\ IsMember(SubSeq(s, 1, k - 1))
          /\ IsMembers(SubSeq(s, k + 1, Len(s)))

StrictJson(str) == IsValue(SelectSeq(str, NotWs))

(* The interior of the fenced block opened by the fence at a and closed by
   the fence at b: the label json right after the opening fence is no part
   of it, nor is the whitespace around it *)
Interior(str, a, b) ==
    LET inner == SubSeq(str, a + 1, b - 1)
        body == IF inner # <<>> /\ Head(inner) = JsonLabel THEN Tail(inner) ELSE inner
        keep == {p \in 1..Len(body) : ~IsWs(body[p])}
    IN  IF keep = {} THEN <<>> ELSE SubSeq(body, MinOf(keep), MaxOf(keep))

(* The fenced blocks of a text: the first fence opens a block, the next one
   closes it, the one after opens the next block, and so on *)
FencedBlocks(str) ==
    LET fs == Positions(str, Fence)
        Rank(p) == Cardinality({q \in fs : q <= p})
    IN  {<<a, b>> \in fs \X fs : Rank(a) % 2 = 1 /\ Rank(b) = Rank(a) + 1}

FirstBlock(str) ==
    CHOOSE blk \in FencedBlocks(str) : \A other \in FencedBlocks(str) : blk[1] <= other[1]

(* The span from the first opening brace to the last closing brace *)
HasBraceSpan(str) ==
    /\ Positions(str, "{") # {}
    /\ Positions(str, "}") # {}
    /\ MinOf(Positions(str, "{")) < MaxOf(Positions(str, "}"))

BraceSpan(str) == SubSeq(str, MinOf(Positions(str, "{")), MaxOf(Positions(str, "}")))

(* Neither the first fenced block nor the bare brace span is strict JSON *)
NoCandidateIsJson(str) ==
    /\ FencedBlocks(str) # {} =>
          ~StrictJson(Interior(str, FirstBlock(str)[1], FirstBlock(str)[2]))
    /\ HasBraceSpan(str) => ~StrictJson(BraceSpan(str))

(* No part of the text is strict JSON *)
NoParseableJson(str) ==
    \A a \in 1..Len(str) : \A b \in a..Len(str) : ~StrictJson(SubSeq(str, a, b))

(* The oracle's side of a request, read off the log of its calls *)
IsEvent(e, ev, kind) == e.ev = ev /\ e.call.kind = kind

ExtractEvents(q, ev, src, k) ==
    {n \in 1..Len(q.log) :
        /\ IsEvent(q.log[n], ev, "extract")
        /\ q.log[n].call.src = src
        /\ q.log[n].call.k = k}

SynthEvents(q, ev) == {n \in 1..Len(q.log) : IsEvent(q.log[n], ev, "synth")}

(* The oracle's response to the call for chunk k (0-based) of a source *)
ResponseTo(q, src, k) == q.log[MinOf(ExtractEvents(q, "return", src, k))].content

(* response(c1) + "\n\n" + ... + "\n\n" + response(cn) *)
RECURSIVE ExpectedSummary(_, _, _)
ExpectedSummary(q, src, n) ==
    IF n = 0 THEN <<>>
    ELSE IF n = 1 THEN ResponseTo(q, src, 0)
    ELSE ExpectedSummary(q, src, n - 1) \o <<"\n", "\n">> \o ResponseTo(q, src, n - 1)

PendingExtracts(q, src) == {c \in q.pending : c.kind = "extract" /\ c.src = src}

PendingSynths(q) == {c \in q.pending : c.kind = "synth"}

(* The text extractJsonFromResponse is to parse: the interior of the first
   fenced block when it is not empty, else the bare brace span *)
CandidateText(str) ==
    IF /\ FencedBlocks(str) # {}
       /\ Interior(str, FirstBlock(str)[1], FirstBlock(str)[2]) # <<>>
    THEN Interior(str, FirstBlock(str)[1], FirstBlock(str)[2])
    ELSE IF HasBraceSpan(str) THEN BraceSpan(str)
    ELSE <<>>

(* A summary tagged with the label of its source *)
Tagged(src, summary) ==
    IF src = "Jira" THEN <<"Jira metrics: ">> \o summary
    ELSE <<"Confluence metrics: ">> \o summary

(* The offset at which the k-th chunk pushed starts: the lengths of the
   chunks before it *)
StartOf(k) == Len(Concat(SubSeq(chunks, 1, k - 1)))

(* The tentative end of the chunk that starts at from *)
TentativeEnd(from) == Min(from + chunkSize, Len(text))

(* The offsets p in the window [a, b) of the text that hold a terminator with
   a whitespace character right after it, inside the window as well *)
Boundaries(a, b) ==
    {p \in a..(b - 2) : text[p + 1] \in Terminators /\ text[p + 2] \in Whitespace}

HealthValues == {"GREEN", "YELLOW", "RED"}

(* The invariants of a report: score within [0,100], projectHealth in its
   enumeration *)
ValidReport(v) ==
    /\ v.t = "obj"
    /\ \A n \in 1..Len(v.m) :
          /\ v.m[n][1] = "score" => (v.m[n][2].t = "num" /\ v.m[n][2].n \in 0..100)
          /\ v.m[n][1] = "projectHealth" =>
                (v.m[n][2].t = "str" /\ v.m[n][2].s \in HealthValues)

----------------------------------------------------------------------------
(* Properties of the pipeline, under Spec *)

(* C3: the summary extractMetricsFromChunks returns for a source of n chunks
   is response(c1) + "\n\n" + ... + "\n\n" + response(cn): every chunk's
   response once, in chunk order, joined by a blank line *)
C3_SummaryOrdering ==
    \A r \in DOMAIN reqs : \A src \in Sources :
        LET q == reqs[r]
            n == Len(q.chunks[src])
        IN  q.ext[src].status = "resolved" =>
                /\ \A k \in 0..(n - 1) :
                      Cardinality(ExtractEvents(q, "return", src, k)) = 1
                /\ q.ext[src].value = ExpectedSummary(q, src, n)

(* The Jira summary of three chunks answered p, qq, p *)
C3_Witness ==
    \E r \in DOMAIN reqs :
        /\ reqs[r].ext["Jira"].status = "resolved"
        /\ Len(reqs[r].chunks["Jira"]) = 3
        /\ reqs[r].ext["Jira"].value = <<"p", "\n", "\n", "q", "q", "\n", "\n", "p">>

(* C4: within one source the extraction calls are issued in chunk order, the
   call for chunk k+1 only after the call for chunk k has returned, and no
   two of them are in flight together *)
C4_Sequential ==
    \A r \in DOMAIN reqs : \A src \in Sources :
        LET q == reqs[r]
        IN  /\ Cardinality(PendingExtracts(q, src)) <= 1
            /\ \A n \in 1..Len(q.log) :
                  (/\ IsEvent(q.log[n], "issue", "extract")
                   /\ q.log[n].call.src = src
                   /\ q.log[n].call.k > 0)
                    => \E m \in ExtractEvents(q, "return", src, q.log[n].call.k - 1) : m < n
            /\ \A n \in 1..Len(q.log) : \A m \in 1..(n - 1) :
                  (/\ IsEvent(q.log[n], "issue", "extract")
                   /\ IsEvent(q.log[m], "issue", "extract")
                   /\ q.log[n].call.src = src
                   /\ q.log[m].call.src = src)
                    => q.log[m].call.k < q.log[n].call.k

(* The call for the third Jira chunk is in flight *)
C4_Witness ==
    \E r \in DOMAIN reqs : \E c \in PendingExtracts(reqs[r], "Jira") : c.k = 2

(* C5: the synthesis call is issued only once both summaries are complete:
   both extractions have returned, every chunk call of the request returned
   before the synthesis call was issued, and none is in flight with it *)
C5_SynthAfterSummaries ==
    \A r \in DOMAIN reqs :
        LET q == reqs[r]
        IN  /\ \A n \in SynthEvents(q, "issue") : \A src \in Sources :
                  /\ q.ext[src].status = "resolved"
                  /\ \A k \in 0..(Len(q.chunks[src]) - 1) :
                        \E m \in ExtractEvents(q, "return", src, k) : m < n
            /\ PendingSynths(q) # {} =>
                  \A src \in Sources : PendingExtracts(q, src) = {}

(* The synthesis call is in flight for a request with two Jira chunks and
   three Confluence chunks *)
C5_Witness ==
    \E r \in DOMAIN reqs :
        /\ PendingSynths(reqs[r]) # {}
        /\ Len(reqs[r].chunks["Jira"]) = 2
        /\ Len(reqs[r].chunks["Confluence"]) = 3

(* C6: a request whose synthesis response holds no parseable JSON ends with
   the failure response, never with a success *)
C6_NoJsonFails ==
    \A r \in DOMAIN reqs :
        LET q == reqs[r]
        IN  (/\ q.pc = "done"
             /\ \E n \in SynthEvents(q, "return") : NoParseableJson(q.log[n].content))
                => (Len(q.sent) = 1 /\ q.sent[1].status = 500)

(* C7: every report sent with a success has its score within [0,100] and
   its projectHealth within the enumeration *)
C7_ReportValid ==
    \A r \in DOMAIN reqs : \A n \in 1..Len(reqs[r].sent) :
        (reqs[r].sent[n].status = 200 /\ reqs[r].sent[n].body.t = "obj")
            => ValidReport(reqs[r].sent[n].body)

(* C12: a report sent on the pipeline's route is the object parsed from the
   text of the request's synthesis response, and so depends on nothing else:
   not on the chunk responses, not on a sample or default, and it is not
   modified on the way *)
C12_ReportIsParsedSynthesis ==
    \A r \in DOMAIN reqs :
        LET q == reqs[r]
        IN  q.route = PipelineRoute =>
                \A n \in 1..Len(q.sent) :
                    (q.sent[n].status = 200 /\ q.sent[n].body.t = "obj") =>
                        /\ Cardinality(SynthEvents(q, "return")) = 1
                        /\ \A m \in SynthEvents(q, "return") :
                               /\ StrictJson(CandidateText(q.log[m].content))
                               /\ q.sent[n].body = JSONParse(CandidateText(q.log[m].content)).v

(* A request with three Jira chunks whose synthesis response held {"score":92}
   in a fenced block was answered with the object {score: 92} *)
C12_Witness ==
    \E r \in DOMAIN reqs :
        /\ reqs[r].route = PipelineRoute
        /\ Len(reqs[r].chunks["Jira"]) = 3
        /\ reqs[r].sent = <<[status |-> 200, body |-> Obj(<< <<"score", Num(92)>> >>)]>>

(* C13: a request issues at most one synthesis call; it has issued exactly one
   when both extractions have returned their summary, and none as long as one
   of them has not (it failed, or was never reached); the call has, for each
   source, a user message that holds the source's label and its summary *)
C13_OneSynthesisCall ==
    \A r \in DOMAIN reqs :
        LET q == reqs[r]
            both == \A src \in Sources : q.ext[src].status = "resolved"
        IN  /\ both => Cardinality(SynthEvents(q, "issue")) = 1
            /\ ~both => SynthEvents(q, "issue") = {}
            /\ \A n \in SynthEvents(q, "issue") : \A src \in Sources :
                  \E j \in 1..Len(q.log[n].call.messages) :
                      /\ q.log[n].call.messages[j].role = "user"
                      /\ q.log[n].call.messages[j].content =
                            Tagged(src, ExpectedSummary(q, src, Len(q.chunks[src])))

(* The synthesis call was issued with the Jira summary of two responses and
   the Confluence summary of one *)
C13_Witness ==
    \E r \in DOMAIN reqs : \E n \in SynthEvents(reqs[r], "issue") :
        /\ reqs[r].log[n].call.messages[2].content =
              <<"Jira metrics: ", "p", "\n", "\n", "q", "q">>
        /\ reqs[r].log[n].call.messages[3].content = <<"Confluence metrics: ", "q", "q">>

(* C14: once an oracle call of a request has failed, be it a chunk call or
   the synthesis call, the request has ended with the error response and with
   nothing else: no report is sent, and no further call is in flight *)
C14_FailurePropagates ==
    \A r \in DOMAIN reqs :
        LET q == reqs[r]
        IN  (\E n \in 1..Len(q.log) : q.log[n].ev = "fail") =>
                /\ q.pc = "done"
                /\ q.sent = <<[status |-> 500, body |-> ErrorBody]>>
                /\ q.pending = {}

(* A request that ended after a Jira chunk call had returned and the second
   Confluence chunk call had failed *)
C14_Witness ==
    \E r \in DOMAIN reqs :
        /\ ExtractEvents(reqs[r], "fail", "Confluence", 1) # {}
        /\ ExtractEvents(reqs[r], "return", "Jira", 0) # {}
        /\ reqs[r].pc = "done"

(* C20: for each chunk of a source at most one call is ever issued, also
   after a failure; exactly one for every chunk once the extraction has
   returned; the call for chunk k has chunk k's text as its user content and
   a system instruction that names the source *)
C20_OneCallPerChunk ==
    \A r \in DOMAIN reqs : \A src \in Sources :
        LET q == reqs[r]
            n == Len(q.chunks[src])
            issued == {m \in 1..Len(q.log) :
                          IsEvent(q.log[m], "issue", "extract") /\ q.log[m].call.src = src}
        IN  /\ \A m \in issued :
                  LET call == q.log[m].call
                  IN  /\ call.k \in 0..(n - 1)
                      /\ Cardinality(ExtractEvents(q, "issue", src, call.k)) = 1
                      /\ Len(call.messages) = 2
                      /\ call.messages[1].role = "system"
                      /\ \E p \in 1..Len(call.messages[1].content) :
                            call.messages[1].content[p] = src
                      /\ call.messages[2] = [role |-> "user", content |-> q.chunks[src][call.k + 1]]
            /\ q.ext[src].status = "resolved" =>
                  \A k \in 0..(n - 1) : Cardinality(ExtractEvents(q, "issue", src, k)) = 1
            /\ Cardinality(issued) <= n

(* The Confluence extraction has returned after three calls, and the call
   for its third chunk held the text ef *)
C20_Witness ==
    \E r \in DOMAIN reqs :
        /\ reqs[r].ext["Confluence"].status = "resolved"
        /\ \E m \in ExtractEvents(reqs[r], "issue", "Confluence", 2) :
              reqs[r].log[m].call.messages[2].content = <<"e", "f">>

(* C21: when the call for chunk k of a source fails, the extraction fails
   with it: it is rejected, it returns no summary, not a partial one either,
   and no call is issued for a chunk after k; so an extraction that returned
   a summary had no failed call, and its summary holds the response to every
   chunk, in chunk order *)
C21_AbortOnChunkFailure ==
    \A r \in DOMAIN reqs : \A src \in Sources :
        LET q == reqs[r]
            n == Len(q.chunks[src])
            failed == {k \in 0..(n - 1) : ExtractEvents(q, "fail", src, k) # {}}
        IN  /\ \A k \in failed :
                  /\ q.ext[src].status = "rejected"
                  /\ q.ext[src].value = <<>>
                  /\ IF src = "Jira" THEN q.jiraMetrics = <<>>
                                     ELSE q.confluenceMetrics = <<>>
                  /\ \A j \in (k + 1)..(n - 1) : ExtractEvents(q, "issue", src, j) = {}
                  /\ SynthEvents(q, "issue") = {}
            /\ q.ext[src].status = "resolved" =>
                  /\ failed = {}
                  /\ q.ext[src].value = ExpectedSummary(q, src, n)

(* The call for the second of three Jira chunks failed after the first had
   been answered *)
C21_Witness ==
    \E r \in DOMAIN reqs :
        /\ Len(reqs[r].chunks["Jira"]) = 3
        /\ ExtractEvents(reqs[r], "return", "Jira", 0) # {}
        /\ ExtractEvents(reqs[r], "fail", "Jira", 1) # {}

(* What an extraction has collected so far is the responses to its own first
   calls, in chunk order *)
OwnResponses(q, src) ==
    /\ Len(q.ext[src].extractedData) = q.ext[src].index
    /\ \A k \in 0..(q.ext[src].index - 1) :
          /\ Cardinality(ExtractEvents(q, "return", src, k)) = 1
          /\ q.ext[src].extractedData[k + 1] = ResponseTo(q, src, k)

(* C22: with two requests interleaved at their oracle calls, every extraction
   has collected the responses to its own chunks only, in its own chunk order,
   every call of a request carries a chunk of that request, a summary is the
   join of the request's own responses, and a step of one request leaves the
   other request's state as it was *)
C22_RequestIsolation ==
    /\ [](\A r \in DOMAIN reqs : \A src \in Sources :
            LET q == reqs[r]
            IN  /\ OwnResponses(q, src)
                /\ \A c \in PendingExtracts(q, src) : c.messages[2].content = q.chunks[src][c.k + 1]
                /\ q.ext[src].status = "resolved" =>
                      q.ext[src].value = ExpectedSummary(q, src, Len(q.chunks[src])))
    /\ [][\A r1, r2 \in DOMAIN reqs :
            (reqs'[r1] # reqs[r1] /\ reqs'[r2] # reqs[r2]) => r1 = r2]_vars

(* Request 1 has its Jira summary p, blank line, qq while request 2, which
   works on the same file, holds the response qq to its first chunk and awaits
   the call for its second *)
C22_Witness ==
    /\ DOMAIN reqs = RequestIds
    /\ reqs[1].ext["Jira"].status = "resolved"
    /\ reqs[1].ext["Jira"].value = <<"p", "\n", "\n", "q", "q">>
    /\ reqs[2].ext["Jira"].extractedData = << <<"q", "q">> >>
    /\ \E c \in PendingExtracts(reqs[2], "Jira") : c.k = 1

(* The place of a call in the order of a request's calls: the Jira chunks in
   chunk order, then the Confluence chunks in chunk order, then the synthesis *)
CallRank(q, call) ==
    CASE call.kind = "extract" /\ call.src = "Jira" -> call.k
      [] call.kind = "extract" /\ call.src = "Confluence" -> Len(q.chunks["Jira"]) + call.k
      [] call.kind = "synth" -> Len(q.chunks["Jira"]) + Len(q.chunks["Confluence"])

IssueEvents(q) == {n \in 1..Len(q.log) : q.log[n].ev = "issue"}

(* C26: the oracle calls of one request are totally ordered and at most one
   is in flight: a call is issued only right after the call before it has
   returned, the m-th call issued is the m-th in the order Jira chunks,
   Confluence chunks, synthesis, every Jira call has returned before the first
   Confluence call is issued, and after a failed Jira call no Confluence call
   and no synthesis call is issued *)
C26_CallsTotallyOrdered ==
    \A r \in DOMAIN reqs :
        LET q == reqs[r]
        IN  /\ Cardinality(q.pending) <= 1
            /\ \A n \in IssueEvents(q) :
                  /\ n > 1 => (q.log[n - 1].ev = "return" /\ n - 1 > 1
                                /\ q.log[n - 2] = [ev |-> "issue",
                                                   call |-> q.log[n - 1].call,
                                                   content |-> <<>>])
                  /\ CallRank(q, q.log[n].call) =
                        Cardinality({m \in IssueEvents(q) : m < n})
            /\ \A n \in 1..Len(q.log) :
                  (IsEvent(q.log[n], "issue", "extract") /\ q.log[n].call.src = "Confluence")
                    => \A k \in 0..(Len(q.chunks["Jira"]) - 1) :
                           \E m \in ExtractEvents(q, "return", "Jira", k) : m < n
            /\ (\E n \in 1..Len(q.log) :
                    IsEvent(q.log[n], "fail", "extract") /\ q.log[n].call.src = "Jira")
                  => \A n \in IssueEvents(q) : q.log[n].call.src = "Jira"

(* The synthesis call is in flight as the sixth call of a request with three
   Jira chunks and two Confluence chunks *)
C26_Witness ==
    \E r \in DOMAIN reqs :
        /\ Len(reqs[r].chunks["Jira"]) = 3
        /\ Len(reqs[r].chunks["Confluence"]) = 2
        /\ Cardinality(IssueEvents(reqs[r])) = 6
        /\ PendingSynths(reqs[r]) # {}

(* C27: when every oracle call eventually returns or fails, every request on
   the pipeline's route ends with exactly one response sent, never none; at no
   time has it sent two; and the response is the result of the JSON extraction
   on the synthesis response, sent with a success, or the error
   {error: "Failed to analyze project health"}, sent with 500 *)
C27_ExactlyOneResponse ==
    /\ [](\A r \in DOMAIN reqs :
            LET q == reqs[r]
            IN  q.route = PipelineRoute =>
                  /\ Len(q.sent) <= 1
                  /\ \A n \in 1..Len(q.sent) :
                        \/ q.sent[n] = [status |-> 500, body |-> ErrorBody]
                        \/ /\ SynthEvents(q, "return") # {}
                           /\ q.sent[n] = [status |-> 200,
                                           body |-> extractJsonFromResponse(q.aiResponse).v])
    /\ <>[](\A r \in DOMAIN reqs :
              reqs[r].route = PipelineRoute =>
                  (reqs[r].pc = "done" /\ Len(reqs[r].sent) = 1))

(* A request whose five chunk calls were answered and whose synthesis call
   failed has sent the one error response *)
C27_Witness ==
    \E r \in DOMAIN reqs :
        /\ reqs[r].route = PipelineRoute
        /\ Cardinality({n \in 1..Len(reqs[r].log) : reqs[r].log[n].ev = "return"}) = 5
        /\ SynthEvents(reqs[r], "fail") # {}
        /\ reqs[r].sent = <<[status |-> 500, body |-> ErrorBody]>>

----------------------------------------------------------------------------
(* Null as the result of extractJsonFromResponse, under SpecJson *)

(* The candidate of a response was parsed successfully: the response has a
   content, and the text the function parses is strict JSON *)
CandidateParsed(resp) == resp.hasMessage /\ StrictJson(CandidateText(resp.content))

(* C25, as claimed: the call never throws; it returns the parsed value when
   the candidate was parsed, and it returns null exactly when no candidate was
   parsed successfully *)
C25_NullIffNothingParsed ==
    jpc = "done" =>
        /\ outcome.kind = "return"
        /\ CandidateParsed(response) =>
              outcome.v = JSONParse(CandidateText(response.content)).v
        /\ outcome.v = Null <=> ~CandidateParsed(response)

(* C25, amended: the call never throws; it returns the parsed value when the
   candidate was parsed and null when none was; it returns null exactly when
   no candidate was parsed successfully or the parsed candidate is the
   literal null *)
C25_NullIffNothingOrNullParsed ==
    jpc = "done" =>
        /\ outcome.kind = "return"
        /\ CandidateParsed(response) =>
              outcome.v = JSONParse(CandidateText(response.content)).v
        /\ ~CandidateParsed(response) => outcome.v = Null
        /\ outcome.v = Null <=>
              \/ ~CandidateParsed(response)
              \/ SelectSeq(CandidateText(response.content), NotWs) = <<"null">>

(* A fenced block that holds the literal null: the parse succeeded and the
   call returned null *)
C25_Witness ==
    /\ jpc = "done"
    /\ response = Message(<<Fence, "null", Fence>>)
    /\ CandidateParsed(response)
    /\ outcome = Returns(Null)

----------------------------------------------------------------------------
(* Properties of splitIntoChunks, under SpecChunk *)

(* C1: for every string and positive chunk size, the concatenation of the
   returned chunks, in order, is the text itself *)
C1_ChunkCoverage == cpc = "done" => Concat(returned) = text

(* C2: every chunk, pushed or returned, is at most chunkSize long, whether a
   sentence boundary was found in the window or not *)
C2_ChunkBound ==
    /\ \A k \in 1..Len(chunks) : Len(chunks[k]) <= chunkSize
    /\ \A k \in 1..Len(returned) : Len(returned[k]) <= chunkSize

(* A run that cut one chunk at a sentence boundary, short of the tentative
   end, and one chunk at the tentative end without a boundary *)
C2_Witness ==
    /\ cpc = "done"
    /\ \E k \in 1..Len(returned) :
          /\ Len(returned[k]) < chunkSize
          /\ k < Len(returned)
          /\ SearchBoundary(returned[k]) # -1
    /\ \E k \in 1..Len(returned) :
          /\ Len(returned[k]) = chunkSize
          /\ SearchBoundary(returned[k]) = -1

(* C18: a chunk whose tentative end is before the end of the text and whose
   window holds a terminator followed by whitespace ends two characters past
   the last such terminator of the window *)
C18_CutAtLastBoundary ==
    \A k \in 1..Len(chunks) :
        LET from == StartOf(k)
            tentativeEnd == TentativeEnd(from)
        IN  (tentativeEnd < Len(text) /\ Boundaries(from, tentativeEnd) # {}) =>
                chunks[k] = Substring(text, from, MaxOf(Boundaries(from, tentativeEnd)) + 2)

(* C19: a chunk whose window holds no terminator followed by whitespace, or
   whose tentative end is the end of the text, ends at the tentative end
   min(offset + chunkSize, length), wherever in a word that is *)
C19_CutAtTentativeEnd ==
    \A k \in 1..Len(chunks) :
        LET from == StartOf(k)
            tentativeEnd == TentativeEnd(from)
        IN  (tentativeEnd = Len(text) \/ Boundaries(from, tentativeEnd) = {}) =>
                chunks[k] = Substring(text, from, tentativeEnd)

(* A first chunk cut inside a word for want of a boundary, and a last chunk
   that holds a boundary and yet runs to the end of the text *)
C19_Witness ==
    /\ cpc = "done"
    /\ Len(chunks) = 2
    /\ Boundaries(0, Len(chunks[1])) = {}
    /\ chunks[1][Len(chunks[1])] = "a"
    /\ text[Len(chunks[1]) + 1] = "a"
    /\ Boundaries(Len(chunks[1]), Len(text)) # {}
    /\ Len(chunks[2]) > 2

(* The offset at which the k-th returned chunk would start if the returned
   chunks lie one after the other from offset 0 *)
ReturnedStart(k) == Len(Concat(SubSeq(returned, 1, k - 1)))

(* C23: the chunks are contiguous, disjoint and in source order.  In the
   loop, i is the total length of the chunks pushed and the k-th chunk is the
   text from the end of the chunk before it (offset 0 for the first) to its
   own end; the returned chunks lie the same way, each a non-empty piece of
   the text that starts where the one before it ended, so their concatenation
   is a prefix of the text *)
C23_Contiguous ==
    /\ i = StartOf(Len(chunks) + 1)
    /\ \A k \in 1..Len(chunks) :
          /\ chunks[k] # <<>>
          /\ chunks[k] = Substring(text, StartOf(k), StartOf(k + 1))
    /\ cpc = "done" =>
          /\ \A k \in 1..Len(returned) :
                /\ returned[k] # <<>>
                /\ ReturnedStart(k + 1) <= Len(text)
                /\ returned[k] = Substring(text, ReturnedStart(k), ReturnedStart(k + 1))
          /\ Concat(returned) = SubSeq(text, 1, Len(Concat(returned)))

(* A call that returned three chunks of three lengths: the first cut short at
   a sentence boundary, the second of the chunk size, the third the rest of
   the text *)
C23_Witness ==
    /\ cpc = "done"
    /\ Len(returned) = 3
    /\ Len(returned[1]) < chunkSize
    /\ returned[1][Len(returned[1]) - 1] \in Terminators
    /\ Len(returned[2]) = chunkSize
    /\ Len(returned[3]) < Len(returned[1])

(* C24: at most five chunks are returned: the first min(n, 5) of the n chunks
   the scan pushed, in their order; when the scan pushed more than five, the
   returned chunks cover the text up to the end of the fifth chunk and nothing
   of the text after it, which is not empty *)
C24_FirstFiveChunks ==
    cpc = "done" =>
        /\ Len(returned) <= 5
        /\ Len(returned) = Min(Len(chunks), 5)
        /\ returned = SubSeq(chunks, 1, Len(returned))
        /\ Len(chunks) > 5 =>
              /\ StartOf(6) < Len(text)
              /\ Concat(returned) = Substring(text, 0, StartOf(6))
              /\ \A k \in 1..Len(returned) : ReturnedStart(k + 1) <= StartOf(6)

(* A scan of six chunks, of which five were returned *)
C24_Witness ==
    /\ cpc = "done"
    /\ Len(chunks) = 6
    /\ Len(returned) = 5
    /\ Concat(returned) # text

(* C15: for every text and positive chunk size the loop terminates: each
   iteration strictly advances the offset, which never passes the length of
   the text, every chunk pushed is non-empty, and the function returns *)
C15_ChunkerTerminates ==
    /\ [][i' # i => (i' > i /\ i' <= Len(text))]_vars
    /\ [][chunks' # chunks => i' > i]_vars
    /\ [](\A k \in 1..Len(chunks) : chunks[k] # <<>>)
    /\ <>(cpc = "done" /\ i = Len(text))

(* The loop returned after three iterations, one of them cut short at a
   sentence boundary *)
C15_Witness ==
    /\ cpc = "done"
    /\ i = Len(text)
    /\ Len(chunks) = 3
    /\ \E k \in 1..2 : Len(chunks[k]) < chunkSize

----------------------------------------------------------------------------
(* Properties of splitIntoChunks and of the extraction that takes its chunks,
   under SpecSplitOrPipeline *)

(* C16: splitIntoChunks returns the empty array for the empty text, whatever
   the chunk size; and extractMetricsFromChunks on an empty array of chunks
   returns the empty summary without a call to the oracle *)
C16_EmptyInput ==
    /\ (cpc = "done" /\ text = <<>>) => returned = <<>>
    /\ \A r \in DOMAIN reqs :
          LET q == reqs[r]
              Data(src) == IF src = "Jira" THEN q.jiraData ELSE q.confluenceData
          IN  (q.route = PipelineRoute /\ q.pc # "received") =>
                  \A src \in Sources :
                      /\ Data(src) = <<>> => q.chunks[src] = <<>>
                      /\ (q.chunks[src] = <<>> /\ q.ext[src].status # "notCalled") =>
                              /\ q.ext[src].status = "resolved"
                              /\ q.ext[src].value = <<>>
                              /\ \A n \in 1..Len(q.log) :
                                     IsEvent(q.log[n], "issue", "extract")
                                        => q.log[n].call.src # src

(* The Jira file is empty and the Confluence file is not: the Jira extraction
   has returned and the first Confluence call is the first call in the log *)
C16_Witness ==
    \E r \in DOMAIN reqs :
        /\ reqs[r].jiraData = <<>>
        /\ reqs[r].ext["Jira"].status = "resolved"
        /\ Len(reqs[r].log) = 1
        /\ reqs[r].log[1].call.src = "Confluence"

----------------------------------------------------------------------------
(* Properties of extractJsonFromResponse, under SpecJson *)

C9_AnyFencedBlock ==
    (jpc = "done" /\ response.hasMessage) =>
        \A blk \in FencedBlocks(response.content) :
            LET inner == Interior(response.content, blk[1], blk[2])
            IN  StrictJson(inner) => outcome = Returns(JSONParse(inner).v)

(* C9, amended: when the first fenced block of the text has a trimmed
   interior that is strict JSON, the call returns the parse of that interior,
   whatever prose or braces stand before or after the block *)
C9_FirstFencedBlock ==
    (jpc = "done" /\ response.hasMessage /\ FencedBlocks(response.content) # {}) =>
        LET blk == FirstBlock(response.content)
            inner == Interior(response.content, blk[1], blk[2])
        IN  StrictJson(inner) =>
                /\ JSONParse(inner).ok
                /\ outcome = Returns(JSONParse(inner).v)

(* Prose around a fenced block labelled json that holds {"a":1}: the call
   returned the object {a: 1} *)
C9_Witness ==
    /\ jpc = "done"
    /\ response = Message(FencedExample)
    /\ outcome = Returns(Obj(<< <<"a", Num(1)>> >>))

(* C10: without a fenced block in the text, the span from the first opening
   brace to the last closing brace is parsed, and its value returned when it
   is strict JSON, whatever prose stands before or after it *)
C10_BareSpan ==
    (/\ jpc = "done"
     /\ response.hasMessage
     /\ FencedBlocks(response.content) = {}
     /\ HasBraceSpan(response.content)
     /\ StrictJson(BraceSpan(response.content)))
        => /\ JSONParse(BraceSpan(response.content)).ok
           /\ outcome = Returns(JSONParse(BraceSpan(response.content)).v)

(* Prose around a bare {"a":1}: the call returned the object {a: 1} *)
C10_Witness ==
    /\ jpc = "done"
    /\ response = Message(BareExample)
    /\ outcome = Returns(Obj(<< <<"a", Num(1)>> >>))

(* C11, as claimed: when the text has a fenced block and no fenced block's
   interior is strict JSON, the call goes on to the bare brace span and
   returns its parse when that span is strict JSON *)
C11_FallbackAfterFailedParse ==
    (/\ jpc = "done"
     /\ response.hasMessage
     /\ FencedBlocks(response.content) # {}
     /\ \A blk \in FencedBlocks(response.content) :
            ~StrictJson(Interior(response.content, blk[1], blk[2]))
     /\ HasBraceSpan(response.content)
     /\ StrictJson(BraceSpan(response.content)))
        => outcome = Returns(JSONParse(BraceSpan(response.content)).v)

(* C11, amended: when the first fenced block has a non-empty interior that is
   not strict JSON, the call returns null and the bare brace span is not
   tried; the brace span is tried after a fenced block only when the first
   fenced block's interior is empty, and its parse is returned when it is
   strict JSON *)
C11_NoFallbackAfterFailedParse ==
    (jpc = "done" /\ response.hasMessage /\ FencedBlocks(response.content) # {}) =>
        LET blk == FirstBlock(response.content)
            inner == Interior(response.content, blk[1], blk[2])
        IN  /\ (inner # <<>> /\ ~StrictJson(inner)) => outcome = Returns(Null)
            /\ (/\ inner = <<>>
                /\ HasBraceSpan(response.content)
                /\ StrictJson(BraceSpan(response.content)))
                  => /\ JSONParse(BraceSpan(response.content)).ok
                     /\ outcome = Returns(JSONParse(BraceSpan(response.content)).v)

(* A fenced block of prose followed by a bare {}: the call returned null *)
C11_Witness ==
    /\ jpc = "done"
    /\ response = Message(<<Fence, Prose, Fence, "{", "}">>)
    /\ outcome = Returns(Null)

----------------------------------------------------------------------------
(* Properties of the script runners and their wrappers, under SpecFetch *)

(* An object with a success field: the success object or an error object *)
HasStatus(v) == "success" \in DOMAIN v

(* C17: the promise fetchConfluenceDocuments or fetchJiraIssues returns is
   never rejected, whatever the input and whatever the script run ends in;
   and the value it resolves with is the success object or an error object
   whose success field is false *)
C17_WrapperAlwaysResolves ==
    fetch.pc # "idle" =>
        /\ fetch.result.state # "rejected"
        /\ fetch.result.state = "fulfilled" =>
              /\ HasStatus(fetch.result.value)
              /\ \/ fetch.result.value = SuccessResponse(fetch)
                 \/ fetch.result.value.success = FALSE

(* What a close can settle the promise with: the success object on code 0,
   the exit error on any other code *)
CloseOutcomes(f) ==
    {[state |-> "fulfilled", value |-> SuccessResponse(f)]}
        \cup {[state |-> "rejected", value |-> ExitError(f, code)] :
                 code \in ExitCodes \ {Num(0)}}

(* C28: of close, error and timeout, the event that happens first settles the
   promise, with the outcome of that event, and no later event changes it: a
   close after the timeout leaves the timeout rejection in place; once the
   child has closed the timer is no longer armed, so that it does not fire,
   kill or reject after the close *)
C28_FirstEventDecides ==
    /\ []((fetch.pc = "spawned" /\ fetch.promise.state = "pending")
            => (fetch.child = "alive" /\ fetch.timer = "armed" /\ fetch.kills = 0))
    /\ [](fetch.pc = "spawned" /\ fetch.child = "closed" => fetch.timer # "armed")
    /\ [][fetch.pc = "spawned" =>
            /\ fetch.promise.state # "pending" =>
                  (fetch'.promise = fetch.promise /\ fetch'.result = fetch.result)
            /\ (fetch.promise.state = "pending" /\ fetch'.child = "closed")
                  => fetch'.promise \in CloseOutcomes(fetch)
            /\ (fetch.promise.state = "pending" /\ fetch'.child = "errored")
                  => fetch'.promise = [state |-> "rejected", value |-> ProcessError]
            /\ (fetch.promise.state = "pending" /\ fetch'.timer = "fired")
                  => fetch'.promise = [state |-> "rejected", value |-> TimeoutError(fetch)]
            /\ fetch.child = "closed" =>
                  (fetch'.kills = fetch.kills /\ fetch'.timer = fetch.timer)]_vars

(* The child closed after the timer had fired and killed it: the promise
   stands rejected with the timeout error *)
C28_Witness ==
    /\ fetch.pc = "spawned"
    /\ fetch.child = "closed"
    /\ fetch.timer = "fired"
    /\ fetch.kills = 1
    /\ fetch.promise = [state |-> "rejected", value |-> TimeoutError(fetch)]

(* The entries of an input: the elements of a list, or the one string the
   Jira runner takes in place of a list *)
EntriesOf(script, input) ==
    IF input.t = "arr" THEN input.a
    ELSE IF script = "jira" /\ input.t = "str" THEN <<input>>
    ELSE <<>>

WrongType(script, input) ==
    input.t # "arr" /\ ~(script = "jira" /\ input.t = "str")

(* A valid entry: a value whose text, blanks around it aside, is a numeric
   document id, or an Atlassian URL or issue key *)
EntryValid(script, e) ==
    ~StringOfThrows(e) /\ IsValidEntry(script, Trim(StringOf(e)))

(* The texts of the valid entries, in input order *)
RECURSIVE ValidArgs(_, _)
ValidArgs(script, entries) ==
    IF entries = <<>> THEN <<>>
    ELSE IF EntryValid(script, Head(entries))
         THEN <<Trim(StringOf(Head(entries)))>> \o ValidArgs(script, Tail(entries))
         ELSE ValidArgs(script, Tail(entries))

(* C29: once the runner has been called, an input of the wrong type, an empty
   list or a list without a valid entry has the promise rejected with an
   object whose success field is false, and no process was spawned; any other
   input had the process spawned once, with the valid entries in input order
   as its arguments *)
C29_ValidateBeforeSpawn ==
    fetch.pc \notin {"idle", "call"} =>
        LET entries == EntriesOf(fetch.script, fetch.input)
        IN  IF \/ WrongType(fetch.script, fetch.input)
               \/ entries = <<>>
               \/ \A p \in 1..Len(entries) : ~EntryValid(fetch.script, entries[p])
            THEN /\ fetch.spawns = <<>>
                 /\ fetch.promise.state = "rejected"
                 /\ HasStatus(fetch.promise.value)
                 /\ fetch.promise.value.success = FALSE
            ELSE fetch.spawns = <<ValidArgs(fetch.script, entries)>>

----------------------------------------------------------------------------
(* Properties of the routing, under SpecHttp *)

(* The layer of that name was entered by the request *)
Entered(name) == \E n \in 1..Len(http.entered) : http.entered[n] = name

(* The request has an id segment after the pipeline's path *)
HasIdSegment ==
    /\ Len(http.path) = Len(ProjectHealthPath) + 1
    /\ PrefixMatches(ProjectHealthPath, http.path)
    /\ http.path[Len(http.path)] # ""

(* The request is answered by a middleware registered before the routes: cors
   answers OPTIONS requests, the body parser gives a body that does not parse
   to the error handler *)
StoppedEarly == http.method = "OPTIONS" \/ http.body = "malformed"

(* C30, as claimed: a GET request to exactly /api/project-health is handled
   by the pipeline's handler and reaches neither the CRUD router nor its list
   handler; a request to that path with another method, or a request with an
   id segment, reaches the CRUD router *)
C30_RoutePrecedence ==
    http.pc = "done" =>
        /\ (http.method = "GET" /\ http.path = ProjectHealthPath) =>
              /\ http.handledBy = "pipeline"
              /\ ~Entered("projectHealthRoutes")
        /\ ((http.method # "GET" /\ http.path = ProjectHealthPath) \/ HasIdSegment) =>
              Entered("projectHealthRoutes")

(* C30, amended: a GET request to exactly /api/project-health reaches neither
   the CRUD router nor its list handler, and is handled by the pipeline's
   handler unless a middleware registered before the routes answers it; the
   same goes for a HEAD request to that path; a request to that path with
   another method, or a request with an id segment, reaches the CRUD router
   unless such a middleware answers it *)
C30_RoutePrecedenceAfterMiddleware ==
    http.pc = "done" =>
        /\ (http.method \in {"GET", "HEAD"} /\ http.path = ProjectHealthPath) =>
              /\ http.handledBy # "getReports"
              /\ ~Entered("projectHealthRoutes")
              /\ ~StoppedEarly => http.handledBy = "pipeline"
        /\ ((http.method \notin {"GET", "HEAD"} /\ http.path = ProjectHealthPath)
                \/ HasIdSegment) =>
              /\ ~StoppedEarly => Entered("projectHealthRoutes")
              /\ StoppedEarly => ~Entered("projectHealthRoutes")

(* A HEAD request to /api/project-health was answered by the pipeline's
   handler after the three middleware ahead of it *)
C30_Witness ==
    /\ http.pc = "done"
    /\ http.method = "HEAD"
    /\ http.path = ProjectHealthPath
    /\ http.entered = <<"helmet", "cors", "express.json", "pipeline">>
    /\ http.handledBy = "pipeline"

====
